---- MODULE Spec2Model ----
(***************************************************************************)
(* Model of src/baggage_claim.py: the Bedrock agent function-call router.  *)
(*                                                                         *)
(* Python values are tagged records: [k |-> kind, s |-> payload].  Texts   *)
(* (f-strings, messages, bodies) are sequences of string fragments, in the *)
(* order the f-string writes them; Flatten gives the text as one string.   *)
(* A Python dict is [keys |-> insertion order, val |-> key-to-value map].  *)
(***************************************************************************)
EXTENDS Integers, Sequences, FiniteSets, TLC

VARIABLES pc, event, action_group, function_name, parameters, agent,
          params, required, result_body, exc, response, log

vars == <<pc, event, action_group, function_name, parameters, agent,
          params, required, result_body, exc, response, log>>

(***************************************************************************)
(* Bounds                                                                  *)
(***************************************************************************)
MaxLen == 2      \* longest enumerated parameter sequence
MaxReq == 3      \* longest enumerated required-key list (validator alone)

(***************************************************************************)
(* Python values                                                           *)
(***************************************************************************)
StrV(x) == [k |-> "str", s |-> x]
NoneV == [k |-> "none", s |-> ""]
IntV(digits) == [k |-> "int", s |-> digits]
ListV(repr) == [k |-> "list", s |-> repr]
Unbound == [k |-> "unbound"]

\* a truth test that only rejects None
TruthyNotNone(v) == v.k # "none"

\* bool(v)
Truthy(v) ==
    CASE v.k = "str" -> v.s # ""
      [] v.k = "none" -> FALSE
      [] v.k = "int" -> v.s # "0"
      [] v.k = "list" -> v.s # "[]"

\* hash(v) succeeds
Hashable(v) == v.k # "list"

\* str(v), as an f-string placeholder formats it
PyStr(v) ==
    CASE v.k = "str" -> v.s
      [] v.k = "none" -> "None"
      [] v.k = "int" -> v.s
      [] v.k = "list" -> v.s

\* repr(v)
PyRepr(v) ==
    CASE v.k = "str" -> "'" \o v.s \o "'"
      [] v.k = "none" -> "None"
      [] v.k = "int" -> v.s
      [] v.k = "list" -> v.s

(***************************************************************************)
(* Texts                                                                   *)
(***************************************************************************)
RECURSIVE Flatten(_)
Flatten(t) == IF t = <<>> THEN "" ELSE Head(t) \o Flatten(Tail(t))

\* sep.join(strs), fragment by fragment
RECURSIVE Join(_, _)
Join(sep, strs) ==
    IF strs = <<>> THEN <<>>
    ELSE IF Len(strs) = 1 THEN <<strs[1]>>
    ELSE <<strs[1], sep>> \o Join(sep, Tail(strs))

Contains(t, frag) == \E i \in 1..Len(t) : t[i] = frag
StartsWith(t, prefix) ==
    Len(t) >= Len(prefix) /\ SubSeq(t, 1, Len(prefix)) = prefix
EndsWith(t, suffix) ==
    Len(t) >= Len(suffix) /\ SubSeq(t, Len(t) - Len(suffix) + 1, Len(t)) = suffix

(***************************************************************************)
(* dict                                                                    *)
(***************************************************************************)
EmptyDict == [keys |-> <<>>, val |-> <<>>]
DictHas(d, key) == key \in DOMAIN d.val
\* d.get(key): None when the key is absent
DictGet(d, key) == IF DictHas(d, key) THEN d.val[key] ELSE NoneV
\* an insertion that keeps the value already stored under the key
DictSetKeepFirst(d, key, value) ==
    IF key \in DOMAIN d.val THEN d
    ELSE [keys |-> Append(d.keys, key),
          val |-> [x \in (DOMAIN d.val) \cup {key} |->
                      IF x = key THEN value ELSE d.val[x]]]

\* d[key] = value
DictSet(d, key, value) ==
    [keys |-> IF DictHas(d, key) THEN d.keys ELSE Append(d.keys, key),
     val |-> [x \in (DOMAIN d.val) \cup {key} |->
                 IF x = key THEN value ELSE d.val[x]]]

(***************************************************************************)
(* Outcomes of a call: a returned value or a raised exception, with the    *)
(* log records the call emitted.                                           *)
(***************************************************************************)
NoExc == [type |-> "none", arg |-> <<>>]
Return(v, entries) == [raised |-> FALSE, val |-> v, exc |-> NoExc, log |-> entries]
Raise(type, arg, entries) ==
    [raised |-> TRUE, val |-> Unbound, exc |-> [type |-> type, arg |-> arg],
     log |-> entries]

\* str(e): KeyError shows the repr of its key, the others their message
ExcStr(e) ==
    IF e.type = "KeyError" THEN <<"'">> \o e.arg \o <<"'">> ELSE e.arg

LogRecord(level, func, msg) == [level |-> level, func |-> func, msg |-> msg]

(***************************************************************************)
(* SupportedFunctions                                                      *)
(***************************************************************************)
FIND_BAGGAGE == "find_baggage"
CHECK_FLIGHT_STATUS == "check_flight_status"
BOOK_FLIGHT == "book_flight"
CANCEL_RESERVATION == "cancel_reservation"
\* the members declared in another order
SupportedFunctionsReordered ==
    <<FIND_BAGGAGE, BOOK_FLIGHT, CHECK_FLIGHT_STATUS, CANCEL_RESERVATION>>

SupportedFunctions ==
    <<FIND_BAGGAGE, CHECK_FLIGHT_STATUS, BOOK_FLIGHT, CANCEL_RESERVATION>>

(***************************************************************************)
(* extract_parameters                                                      *)
(***************************************************************************)
WellFormed(item) ==
    item.k = "dict" /\ "name" \in DOMAIN item.d /\ "value" \in DOMAIN item.d

RECURSIVE ExtractLoop(_, _)
ExtractLoop(items, result) ==
    IF items = <<>> THEN Return(result, <<>>)
    ELSE LET item == Head(items) IN
         IF WellFormed(item)
         THEN IF Hashable(item.d.name)
              THEN ExtractLoop(Tail(items),
                               DictSet(result, item.d.name, item.d.value))
              ELSE Raise("TypeError", <<"unhashable type: 'list'">>, <<>>)
         ELSE ExtractLoop(Tail(items), result)

extract_parameters(p) ==
    IF p.k # "list" THEN Return(EmptyDict, <<>>)
    ELSE ExtractLoop(p.items, EmptyDict)

(***************************************************************************)
(* validate_required_params                                                *)
(***************************************************************************)
\* a check of presence only: param not in params
MissingAbsentOnly(ps, req) ==
    SelectSeq(req, LAMBDA param : ~DictHas(ps, StrV(param)))

Missing(ps, req) ==
    SelectSeq(req, LAMBDA param : ~Truthy(DictGet(ps, StrV(param))))

validate_required_params(ps, req) ==
    LET missing == Missing(ps, req) IN
    IF missing # <<>>
    THEN Raise("ValueError",
               <<"Missing required parameters: ">> \o Join(", ", missing), <<>>)
    ELSE Return(NoneV, <<>>)

(***************************************************************************)
(* create_response                                                         *)
(***************************************************************************)
create_response(ag, fn, body) ==
    [response |->
        [actionGroup |-> ag,
         function |-> fn,
         functionResponse |-> [responseBody |-> [TEXT |-> [body |-> body]]]],
     messageVersion |-> 1]

(***************************************************************************)
(* Operation handlers                                                      *)
(***************************************************************************)
find_baggage(flight_number, phone_number) ==
    Return(<<"Found baggage information for flight ", PyStr(flight_number), ". ",
             "Your baggage is currently at baggage claim area B. ",
             "Contact number on file: ", PyStr(phone_number)>>,
           <<LogRecord("INFO", "find_baggage",
               <<"Searching for baggage on flight ", PyStr(flight_number),
                 " for phone ", PyStr(phone_number)>>)>>)

check_flight_status(flight_number) ==
    Return(<<"Flight ", PyStr(flight_number), " is currently on time. ",
             "Departure: 3:30 PM, Arrival: 6:45 PM, Gate: A12">>,
           <<LogRecord("INFO", "check_flight_status",
               <<"Checking status for flight ", PyStr(flight_number)>>)>>)

\* a template with the two cities exchanged
book_flight_swapped(departure_city, arrival_city, departure_date, passenger_name, phone_number) ==
    LET confirmation_code == "ABC123" IN
    Return(<<"Flight booked successfully! ",
             "Confirmation code: ", confirmation_code, ". ",
             "Route: ", PyStr(arrival_city), " to ", PyStr(departure_city),
             " on ", PyStr(departure_date), ". ",
             "Passenger: ", PyStr(passenger_name),
             ", Contact: ", PyStr(phone_number)>>,
           <<LogRecord("INFO", "book_flight",
               <<"Booking flight from ", PyStr(departure_city), " to ",
                 PyStr(arrival_city), " for ", PyStr(passenger_name)>>)>>)

book_flight(departure_city, arrival_city, departure_date, passenger_name, phone_number) ==
    LET confirmation_code == "ABC123" IN
    Return(<<"Flight booked successfully! ",
             "Confirmation code: ", confirmation_code, ". ",
             "Route: ", PyStr(departure_city), " to ", PyStr(arrival_city),
             " on ", PyStr(departure_date), ". ",
             "Passenger: ", PyStr(passenger_name),
             ", Contact: ", PyStr(phone_number)>>,
           <<LogRecord("INFO", "book_flight",
               <<"Booking flight from ", PyStr(departure_city), " to ",
                 PyStr(arrival_city), " for ", PyStr(passenger_name)>>)>>)

cancel_reservation(confirmation_code, phone_number) ==
    Return(<<"Reservation ", PyStr(confirmation_code),
             " has been successfully canceled. ",
             "Refund will be processed to the original payment method within 3-5 business days.">>,
           <<LogRecord("INFO", "cancel_reservation",
               <<"Canceling reservation ", PyStr(confirmation_code),
                 " for phone ", PyStr(phone_number)>>)>>)

(***************************************************************************)
(* route_function_call                                                     *)
(***************************************************************************)
\* One branch of the chain: validate, then subscript params and call the
\* handler; params[key] raises KeyError for an absent key.
Dispatch(ps, req, subscripts, handlerCall) ==
    LET v == validate_required_params(ps, req)
        absent == SelectSeq(subscripts, LAMBDA key : ~DictHas(ps, StrV(key)))
    IN  IF v.raised THEN v
        ELSE IF absent # <<>> THEN Raise("KeyError", <<absent[1]>>, <<>>)
        ELSE handlerCall

Subscript(ps, key) == ps.val[StrV(key)]

route_function_call(fn, ps) ==
    IF fn = StrV(FIND_BAGGAGE)
    THEN Dispatch(ps, <<"phoneNumber", "flightNumber">>,
                  <<"flightNumber", "phoneNumber">>,
                  find_baggage(Subscript(ps, "flightNumber"),
                               Subscript(ps, "phoneNumber")))
    ELSE IF fn = StrV(CHECK_FLIGHT_STATUS)
    THEN Dispatch(ps, <<"flightNumber">>, <<"flightNumber">>,
                  check_flight_status(Subscript(ps, "flightNumber")))
    ELSE IF fn = StrV(BOOK_FLIGHT)
    THEN Dispatch(ps,
                  <<"departureCity", "arrivalCity", "departureDate",
                    "passengerName", "phoneNumber">>,
                  <<"departureCity", "arrivalCity", "departureDate",
                    "passengerName", "phoneNumber">>,
                  book_flight(Subscript(ps, "departureCity"),
                              Subscript(ps, "arrivalCity"),
                              Subscript(ps, "departureDate"),
                              Subscript(ps, "passengerName"),
                              Subscript(ps, "phoneNumber")))
    ELSE IF fn = StrV(CANCEL_RESERVATION)
    THEN Dispatch(ps, <<"confirmationCode", "phoneNumber">>,
                  <<"confirmationCode", "phoneNumber">>,
                  cancel_reservation(Subscript(ps, "confirmationCode"),
                                     Subscript(ps, "phoneNumber")))
    ELSE LET supported == SupportedFunctions IN
         Raise("ValueError",
               <<"Unsupported function: ", PyStr(fn), ". Supported: ">>
                   \o Join(", ", supported),
               <<>>)

(***************************************************************************)
(* lambda_handler, one action per stage of its body                        *)
(***************************************************************************)
RequiredFields == <<"actionGroup", "function", "agent">>
EmptyList == [k |-> "list", items |-> <<>>]

\* event.get(field) or default: a falsy value is replaced too
EventGetOrDefault(ev, field, default) ==
    IF field \in DOMAIN ev /\ (ev[field].k \in {"list", "dict"} \/ Truthy(ev[field]))
    THEN ev[field] ELSE default

\* event.get(field, default)
EventGet(ev, field, default) ==
    IF field \in DOMAIN ev THEN ev[field] ELSE default

\* the clauses without the final except Exception
ExceptClauseNoCatchAll(type) ==
    IF type = "KeyError" THEN "KeyError"
    ELSE IF type = "ValueError" THEN "ValueError"
    ELSE "none"

\* the second clause written as except (ValueError, TypeError)
ExceptClauseWiderValueError(type) ==
    IF type = "KeyError" THEN "KeyError"
    ELSE IF type \in {"ValueError", "TypeError"} THEN "ValueError"
    ELSE "Exception"

\* the except clause that handles an exception of the given type
ExceptClause(type) ==
    IF type = "KeyError" THEN "KeyError"
    ELSE IF type = "ValueError" THEN "ValueError"
    ELSE "Exception"

\* the reads without the unused agent = event['agent']
FirstMissingSkipsAgent(ev) ==
    IF "actionGroup" \notin DOMAIN ev THEN "actionGroup"
    ELSE IF "function" \notin DOMAIN ev THEN "function"
    ELSE ""

\* lines 121-124: the subscripts event['actionGroup'], event['function'] and
\* event['agent'] are evaluated in this order; the first absent one raises
\* KeyError.  "" when all three are present.
FirstMissing(ev) ==
    IF "actionGroup" \notin DOMAIN ev THEN "actionGroup"
    ELSE IF "function" \notin DOMAIN ev THEN "function"
    ELSE IF "agent" \notin DOMAIN ev THEN "agent"
    ELSE ""

\* lines 121-126
ReadFields ==
    /\ pc = "start"
    /\ LET hasAG == "actionGroup" \in DOMAIN event
           hasFN == "function" \in DOMAIN event
           hasAgent == "agent" \in DOMAIN event
           missing == FirstMissing(event)
       IN  /\ action_group' = IF hasAG THEN event["actionGroup"] ELSE Unbound
           /\ function_name' =
                 IF hasAG /\ hasFN THEN event["function"] ELSE Unbound
           /\ parameters' =
                 IF hasAG /\ hasFN
                 THEN EventGet(event, "parameters", EmptyList) ELSE Unbound
           /\ agent' =
                 IF hasAG /\ hasFN /\ hasAgent THEN event["agent"] ELSE Unbound
           /\ IF missing = ""
              THEN /\ log' = Append(log,
                        LogRecord("INFO", "lambda_handler",
                           <<"Processing function '", PyStr(function_name'),
                             "' from action group '",
                             PyStr(action_group'), "'">>))
                   /\ pc' = "extract"
                   /\ exc' = exc
              ELSE /\ exc' = [type |-> "KeyError", arg |-> <<missing>>]
                   /\ pc' = "except"
                   /\ log' = log
    /\ UNCHANGED <<event, params, required, result_body, response>>

\* repr(list(params.keys()))
KeysRepr(d) ==
    <<"[">> \o Join(", ", [i \in 1..Len(d.keys) |-> PyRepr(d.keys[i])]) \o <<"]">>

\* lines 129-130
Extract ==
    /\ pc = "extract"
    /\ LET r == extract_parameters(parameters) IN
       IF r.raised
       THEN /\ exc' = r.exc
            /\ pc' = "except"
            /\ UNCHANGED <<params, log>>
       ELSE /\ params' = r.val
            /\ log' = Append(log,
                  LogRecord("INFO", "lambda_handler",
                     <<"Extracted parameters: ">> \o KeysRepr(r.val)))
            /\ pc' = "route"
            /\ exc' = exc
    /\ UNCHANGED <<event, action_group, function_name, parameters, agent,
                   required, result_body, response>>

\* line 133
Route ==
    /\ pc = "route"
    /\ LET r == route_function_call(function_name, params) IN
       /\ log' = log \o r.log
       /\ IF r.raised
          THEN /\ exc' = r.exc
               /\ pc' = "except"
               /\ result_body' = result_body
          ELSE /\ result_body' = r.val
               /\ pc' = "respond"
               /\ exc' = exc
    /\ UNCHANGED <<event, action_group, function_name, parameters, agent,
                   params, required, response>>

\* lines 136-138
Respond ==
    /\ pc = "respond"
    /\ response' = create_response(action_group, function_name, result_body)
    /\ log' = Append(log, LogRecord("INFO", "lambda_handler",
                                    <<"Successfully processed function call">>))
    /\ pc' = "done"
    /\ UNCHANGED <<event, action_group, function_name, parameters, agent,
                   params, required, result_body, exc>>

\* lines 140-168
Except ==
    /\ pc = "except"
    /\ LET clause == ExceptClause(exc.type)
           logged ==
               IF clause = "KeyError"
               THEN <<"Missing required field: ">> \o ExcStr(exc)
               ELSE IF clause = "ValueError"
               THEN <<"Validation error: ">> \o ExcStr(exc)
               ELSE <<"Unexpected error: ">> \o ExcStr(exc)
           error_msg ==
               IF clause = "KeyError"
               THEN <<"Missing required field: ">> \o ExcStr(exc)
                        \o <<". Please contact IT support.">>
               ELSE IF clause = "ValueError"
               THEN <<"Validation error: ">> \o ExcStr(exc)
                        \o <<". Please check your input and try again.">>
               ELSE <<"An unexpected error occurred. Please contact IT support.">>
       IN  IF clause \in {"KeyError", "ValueError", "Exception"}
           THEN /\ log' = Append(log, LogRecord("ERROR", "lambda_handler", logged))
                /\ response' = create_response(
                                  EventGet(event, "actionGroup", StrV("unknown")),
                                  EventGet(event, "function", StrV("unknown")),
                                  error_msg)
                /\ pc' = "done"
           ELSE /\ pc' = "raised"
                /\ UNCHANGED <<log, response>>
    /\ UNCHANGED <<event, action_group, function_name, parameters, agent,
                   params, required, result_body, exc>>

(***************************************************************************)
(* validate_required_params called on its own                              *)
(***************************************************************************)
Validate ==
    /\ pc = "validate"
    /\ LET r == validate_required_params(params, required) IN
       /\ pc' = IF r.raised THEN "raised" ELSE "returned"
       /\ exc' = r.exc
       /\ result_body' = r.val
    /\ UNCHANGED <<event, action_group, function_name, parameters, agent,
                   params, required, response, log>>

(***************************************************************************)
(* Inputs                                                                  *)
(***************************************************************************)
Absent == [k |-> "absent", s |-> ""]

\* the dict built by inserting, in the order of keys, every key whose
\* entry in a is not Absent
RECURSIVE BuildDict(_, _, _)
BuildDict(keys, a, d) ==
    IF keys = <<>> THEN d
    ELSE BuildDict(Tail(keys), Tail(a),
                   IF Head(a) = Absent THEN d
                   ELSE DictSet(d, StrV(Head(keys)), Head(a)))

DictItem(d) == [k |-> "dict", d |-> d]
ListOf(items) == [k |-> "list", items |-> items]

ItemNames == {StrV("flightNumber"), StrV("phoneNumber"), ListV("['flightNumber']")}
ItemValues == {StrV("UA100"), StrV(""), IntV("0")}
MalformedItems ==
    {StrV("flightNumber"),
     DictItem([name |-> StrV("flightNumber")]),
     DictItem([value |-> StrV("UA100")])}
ItemSet ==
    {DictItem([name |-> n, value |-> v]) : n \in ItemNames, v \in ItemValues}
        \cup MalformedItems

SeqsUpTo(S, n) == UNION {[1..m -> S] : m \in 0..n}

\* a complete, truthy parameter list for each supported function
Sample(key) ==
    CASE key = "flightNumber" -> StrV("UA100")
      [] key = "phoneNumber" -> StrV("555-1234")
      [] key = "departureCity" -> StrV("Boston")
      [] key = "arrivalCity" -> StrV("Denver")
      [] key = "departureDate" -> StrV("2025-01-15")
      [] key = "passengerName" -> StrV("Ada")
      [] key = "confirmationCode" -> StrV("XYZ9")
FullList(keys) ==
    [i \in 1..Len(keys) |-> DictItem([name |-> StrV(keys[i]), value |-> Sample(keys[i])])]
FullLists ==
    {FullList(<<"flightNumber", "phoneNumber">>),
     FullList(<<"flightNumber">>),
     FullList(<<"departureCity", "arrivalCity", "departureDate",
                "passengerName", "phoneNumber">>),
     FullList(<<"confirmationCode", "phoneNumber">>)}

NonSequences == {NoneV, DictItem([name |-> StrV("flightNumber"), value |-> StrV("UA100")])}
ParametersValues(n) ==
    {ListOf(l) : l \in SeqsUpTo(ItemSet, n) \cup FullLists} \cup NonSequences

ActionGroupValues == {StrV("BaggageActions"), StrV("")}
FunctionValues ==
    {StrV(SupportedFunctions[i]) : i \in 1..Len(SupportedFunctions)}
        \cup {StrV("reboot"), NoneV}
AgentValue == DictItem([name |-> StrV("airline-agent")])

EventFields == {"actionGroup", "function", "agent", "parameters"}
MkEvent(S, ag, fn, par) ==
    [f \in S |-> CASE f = "actionGroup" -> ag
                   [] f = "function" -> fn
                   [] f = "parameters" -> par
                   [] f = "agent" -> AgentValue]
Events ==
    {MkEvent(S, ag, fn, par) :
        S \in SUBSET EventFields, ag \in ActionGroupValues,
        fn \in FunctionValues, par \in ParametersValues(MaxLen)}

ValidateKeys == <<"flightNumber", "phoneNumber", "seat">>
ValidateValues == {StrV("UA100"), StrV(""), NoneV, IntV("0"), IntV("7")}
ValidateDicts ==
    {BuildDict(ValidateKeys, a, EmptyDict) :
        a \in [1..Len(ValidateKeys) -> ValidateValues \cup {Absent}]}
RequiredLists ==
    SeqsUpTo({"flightNumber", "phoneNumber", "confirmationCode"}, MaxReq)

RouteKeys == <<"flightNumber", "phoneNumber", "departureCity", "arrivalCity",
               "departureDate", "passengerName", "confirmationCode">>
RouteValues == {StrV("UA100"), IntV("7"), StrV("")}
RouteDicts ==
    {BuildDict(RouteKeys, a, EmptyDict) :
        a \in [1..Len(RouteKeys) -> RouteValues \cup {Absent}]}

(***************************************************************************)
(* Specifications                                                          *)
(***************************************************************************)
Locals ==
    /\ action_group = Unbound
    /\ function_name = Unbound
    /\ parameters = Unbound
    /\ agent = Unbound
    /\ params = Unbound
    /\ required = <<>>
    /\ result_body = Unbound
    /\ exc = NoExc
    /\ response = Unbound
    /\ log = <<>>

\* one invocation of lambda_handler(event, context)
Init ==
    /\ pc = "start"
    /\ event \in Events
    /\ Locals

Next == ReadFields \/ Extract \/ Route \/ Respond \/ Except

Spec == Init /\ [][Next]_vars

\* extract_parameters(parameters)
InitExtract ==
    /\ pc = "extract"
    /\ event = <<>>
    /\ parameters \in ParametersValues(MaxLen + 1)
    /\ action_group = Unbound
    /\ function_name = Unbound
    /\ agent = Unbound
    /\ params = Unbound
    /\ required = <<>>
    /\ result_body = Unbound
    /\ exc = NoExc
    /\ response = Unbound
    /\ log = <<>>

NextExtract == Extract

SpecExtract == InitExtract /\ [][NextExtract]_vars

\* validate_required_params(params, required)
InitValidate ==
    /\ pc = "validate"
    /\ event = <<>>
    /\ params \in ValidateDicts
    /\ required \in RequiredLists
    /\ action_group = Unbound
    /\ function_name = Unbound
    /\ parameters = Unbound
    /\ agent = Unbound
    /\ result_body = Unbound
    /\ exc = NoExc
    /\ response = Unbound
    /\ log = <<>>

NextValidate == Validate

SpecValidate == InitValidate /\ [][NextValidate]_vars

\* route_function_call(function_name, params)
InitRoute ==
    /\ pc = "route"
    /\ event = <<>>
    /\ function_name \in FunctionValues
    /\ params \in RouteDicts
    /\ action_group = Unbound
    /\ parameters = Unbound
    /\ agent = Unbound
    /\ required = <<>>
    /\ result_body = Unbound
    /\ exc = NoExc
    /\ response = Unbound
    /\ log = <<>>

NextRoute == Route

SpecRoute == InitRoute /\ [][NextRoute]_vars

(***************************************************************************)
(* Properties                                                              *)
(***************************************************************************)
Body(r) == r.response.functionResponse.responseBody.TEXT.body
Bound(x) == x # Unbound
AllFieldsPresent == {"actionGroup", "function", "agent"} \subseteq DOMAIN event
IsFalsy(v) == v \in {StrV(""), NoneV, IntV("0")}
LacksTruthy(d, key) ==
    StrV(key) \notin DOMAIN d.val \/ IsFalsy(d.val[StrV(key)])
HandlerNames ==
    {"find_baggage", "check_flight_status", "book_flight", "cancel_reservation"}
NoHandlerLog == \A i \in 1..Len(log) : log[i].func \notin HandlerNames

WellShaped(r) ==
    /\ DOMAIN r = {"response", "messageVersion"}
    /\ r.messageVersion = 1
    /\ DOMAIN r.response = {"actionGroup", "function", "functionResponse"}
    /\ DOMAIN r.response.functionResponse = {"responseBody"}
    /\ DOMAIN r.response.functionResponse.responseBody = {"TEXT"}
    /\ DOMAIN r.response.functionResponse.responseBody.TEXT = {"body"}
    /\ Len(Body(r)) > 0

\* C1: whatever the event holds (fields present or absent, any function
\* name, parameters absent, not a sequence, or a sequence with malformed or
\* unhashable items), lambda_handler never lets an exception escape, every
\* unfinished invocation can take its next step, and a finished invocation
\* has returned an envelope of the fixed shape with messageVersion 1.
AlwaysReturnsEnvelope ==
    /\ pc # "raised"
    /\ pc # "done" => ENABLED Next
    /\ pc = "done" => WellShaped(response)

AlwaysReturnsEnvelopeWitness ==
    /\ pc = "done"
    /\ exc.type = "TypeError"
    /\ "actionGroup" \in DOMAIN event
    /\ WellShaped(response)

\* C2: in the returned envelope response.actionGroup and response.function
\* are the event's values verbatim when the field is present (also when the
\* value is empty or None), on the success and on every error path, and the
\* literal "unknown" exactly when the field is absent from the event.
EnvelopePassthrough ==
    pc = "done" =>
        /\ response.response.actionGroup =
              IF "actionGroup" \in DOMAIN event
              THEN event["actionGroup"] ELSE StrV("unknown")
        /\ response.response.function =
              IF "function" \in DOMAIN event
              THEN event["function"] ELSE StrV("unknown")

EnvelopePassthroughWitness ==
    /\ pc = "done"
    /\ exc.type = "KeyError"
    /\ "actionGroup" \in DOMAIN event
    /\ event["actionGroup"] = StrV("")
    /\ "function" \notin DOMAIN event
    /\ response.response.actionGroup = StrV("")
    /\ response.response.function = StrV("unknown")

\* C3: when a required top-level field is absent, the body of the returned
\* envelope reads "Missing required field: <field name>. Please contact IT
\* support." with the bare name of the absent field.
MissingFieldBodyReads ==
    (pc = "done" /\ ~AllFieldsPresent) =>
        \E field \in {"actionGroup", "function", "agent"} \ DOMAIN event :
            Flatten(Body(response)) =
                "Missing required field: " \o field \o ". Please contact IT support."

\* the required keys of each supported function (spec section 6)
RequiredKeysOf(fn) ==
    CASE fn = StrV("find_baggage") -> {"flightNumber", "phoneNumber"}
      [] fn = StrV("check_flight_status") -> {"flightNumber"}
      [] fn = StrV("book_flight") ->
            {"departureCity", "arrivalCity", "departureDate",
             "passengerName", "phoneNumber"}
      [] fn = StrV("cancel_reservation") -> {"confirmationCode", "phoneNumber"}
      [] OTHER -> {}
IsSupported(fn) ==
    fn \in {StrV("find_baggage"), StrV("check_flight_status"),
            StrV("book_flight"), StrV("cancel_reservation")}

\* C4: an invocation with all three top-level fields, a supported function
\* and a Parameter Map (from parameters absent, not a sequence, or a
\* sequence) lacking a truthy value for some required key of that function
\* ends with a body that starts with "Validation error:", names every
\* missing or falsy required key and ends with "Please check your input and
\* try again."; no handler log record is emitted and no result is computed.
ValidationFailureSurfaced ==
    (/\ pc \in {"except", "done"}
     /\ AllFieldsPresent
     /\ Bound(function_name) /\ IsSupported(function_name)
     /\ Bound(params)
     /\ \E key \in RequiredKeysOf(function_name) : LacksTruthy(params, key))
    =>
        /\ NoHandlerLog
        /\ result_body = Unbound
        /\ pc = "done" =>
            /\ StartsWith(Body(response), <<"Validation error: ">>)
            /\ EndsWith(Body(response), <<". Please check your input and try again.">>)
            /\ \A key \in RequiredKeysOf(function_name) :
                  LacksTruthy(params, key) <=> Contains(Body(response), key)

ValidationFailureSurfacedWitness ==
    /\ pc = "done"
    /\ AllFieldsPresent
    /\ "parameters" \notin DOMAIN event
    /\ function_name = StrV("find_baggage")
    /\ Flatten(Body(response)) =
          "Validation error: Missing required parameters: phoneNumber, flightNumber. Please check your input and try again."

\* C5: route_function_call with a function name outside the four supported
\* ones fails, whatever the Parameter Map holds, with a ValueError whose
\* message names the function and lists find_baggage, check_flight_status,
\* book_flight, cancel_reservation in that order, comma-joined; the envelope
\* lambda_handler returns carries "Validation error: <message>. Please check
\* your input and try again.".
UnsupportedMessage(fn) ==
    "Unsupported function: " \o (IF fn = NoneV THEN "None" ELSE fn.s)
        \o ". Supported: find_baggage, check_flight_status, book_flight, cancel_reservation"

UnsupportedFunctionSurfaced ==
    (/\ pc \in {"except", "done"}
     /\ Bound(function_name) /\ ~IsSupported(function_name)
     /\ Bound(params))
    =>
        /\ exc.type = "ValueError"
        /\ Flatten(exc.arg) = UnsupportedMessage(function_name)
        /\ Contains(exc.arg, IF function_name = NoneV THEN "None" ELSE function_name.s)
        /\ NoHandlerLog
        /\ pc = "done" =>
              Flatten(Body(response)) =
                  "Validation error: " \o UnsupportedMessage(function_name)
                      \o ". Please check your input and try again."

UnsupportedFunctionSurfacedWitness ==
    /\ pc = "done"
    /\ function_name = StrV("reboot")
    /\ Bound(params) /\ params.keys # <<>>
    /\ Flatten(Body(response)) =
          "Validation error: Unsupported function: reboot. Supported: find_baggage, check_flight_status, book_flight, cancel_reservation. Please check your input and try again."

\* C6: for each supported function and every Parameter Map whose required
\* keys all hold truthy values, route_function_call returns the text of the
\* matching handler with the value of each documented key in its argument
\* position; book_flight's text carries the code ABC123 and all five
\* values; keys that are not required have no influence on the text.
Arg(key) == PyStr(params.val[StrV(key)])
ExpectedResult(fn) ==
    CASE fn = StrV("find_baggage") ->
            "Found baggage information for flight " \o Arg("flightNumber")
            \o ". Your baggage is currently at baggage claim area B. "
            \o "Contact number on file: " \o Arg("phoneNumber")
      [] fn = StrV("check_flight_status") ->
            "Flight " \o Arg("flightNumber") \o " is currently on time. "
            \o "Departure: 3:30 PM, Arrival: 6:45 PM, Gate: A12"
      [] fn = StrV("book_flight") ->
            "Flight booked successfully! Confirmation code: ABC123. Route: "
            \o Arg("departureCity") \o " to " \o Arg("arrivalCity") \o " on "
            \o Arg("departureDate") \o ". Passenger: " \o Arg("passengerName")
            \o ", Contact: " \o Arg("phoneNumber")
      [] fn = StrV("cancel_reservation") ->
            "Reservation " \o Arg("confirmationCode")
            \o " has been successfully canceled. Refund will be processed to "
            \o "the original payment method within 3-5 business days."

RouteReturnsHandlerResult ==
    (/\ pc # "route"
     /\ IsSupported(function_name)
     /\ \A key \in RequiredKeysOf(function_name) : ~LacksTruthy(params, key))
    =>
        /\ pc = "respond"
        /\ Flatten(result_body) = ExpectedResult(function_name)
        /\ function_name = StrV("book_flight") =>
              /\ Contains(result_body, "ABC123")
              /\ \A key \in RequiredKeysOf(function_name) :
                    Contains(result_body, Arg(key))
        /\ Len(log) = 1 /\ log[1].func = function_name.s

RouteReturnsHandlerResultWitness ==
    /\ pc = "respond"
    /\ function_name = StrV("book_flight")
    /\ params.val[StrV("departureCity")] # params.val[StrV("arrivalCity")]
    /\ StrV("confirmationCode") \in DOMAIN params.val
    /\ Contains(result_body, "ABC123")

\* C7: validate_required_params(params, required) raises if and only if
\* some key of required is absent from params or maps to a falsy value
\* (empty string, None, zero); the message then names exactly the offending
\* keys, comma-joined in their order in required; otherwise it returns None.
Offending == SelectSeq(required, LAMBDA key : LacksTruthy(params, key))
\* the keys a "Missing required parameters: a, b, c" message names
NamedKeys(msg) == [i \in 1..(Len(msg) \div 2) |-> msg[2 * i]]
CommaJoined(msg) ==
    /\ Len(msg) % 2 = 0
    /\ \A i \in 2..(Len(msg) \div 2) : msg[2 * i - 1] = ", "

ValidatorContract ==
    pc # "validate" =>
        /\ pc = "raised" <=> Offending # <<>>
        /\ pc = "raised" =>
              /\ exc.type = "ValueError"
              /\ exc.arg[1] = "Missing required parameters: "
              /\ CommaJoined(exc.arg)
              /\ NamedKeys(exc.arg) = Offending
        /\ pc = "returned" => result_body = NoneV /\ exc = NoExc

ValidatorContractWitness ==
    /\ pc = "raised"
    /\ required = <<"phoneNumber", "flightNumber", "confirmationCode">>
    /\ {StrV("flightNumber"), StrV("phoneNumber")} \subseteq DOMAIN params.val
    /\ params.val[StrV("flightNumber")] = StrV("UA100")
    /\ params.val[StrV("phoneNumber")] = IntV("0")
    /\ Flatten(exc.arg) = "Missing required parameters: phoneNumber, confirmationCode"

\* the well-formed items of the parameter sequence, by position
IsMapping(item) == item.k = "dict"
WellFormedAt ==
    {i \in 1..Len(parameters.items) :
        /\ IsMapping(parameters.items[i])
        /\ {"name", "value"} \subseteq DOMAIN parameters.items[i].d}
NamesOfWellFormed == {parameters.items[i].d.name : i \in WellFormedAt}
LastWith(name) ==
    CHOOSE i \in WellFormedAt :
        /\ parameters.items[i].d.name = name
        /\ \A j \in WellFormedAt : parameters.items[j].d.name = name => j <= i
MapsWellFormedItems ==
    /\ pc = "route"
    /\ DOMAIN params.val = NamesOfWellFormed
    /\ \A name \in NamesOfWellFormed :
          params.val[name] = parameters.items[LastWith(name)].d.value
    /\ Len(params.keys) = Cardinality(NamesOfWellFormed)

\* C8 as stated: for every parameter sequence extract_parameters returns a
\* mapping whose keys are the names of the well-formed items, each holding
\* the value of the last well-formed item with that name.
ExtractMapsEverySequence ==
    (pc # "extract" /\ parameters.k = "list") => MapsWellFormedItems

\* C8, amended: the same, for every parameter sequence whose well-formed
\* items all have a hashable name (a string, a number, None); items that are
\* not mappings or lack name or value contribute nothing and raise nothing.
ExtractMapsHashableSequence ==
    (/\ pc # "extract"
     /\ parameters.k = "list"
     /\ \A i \in WellFormedAt : parameters.items[i].d.name.k # "list")
    => MapsWellFormedItems

ExtractMapsHashableSequenceWitness ==
    /\ pc = "route"
    /\ parameters.k = "list"
    /\ Len(parameters.items) = 3
    /\ parameters.items[1] = DictItem([name |-> StrV("flightNumber"), value |-> StrV("UA100")])
    /\ parameters.items[2] = DictItem([value |-> StrV("UA100")])
    /\ parameters.items[3] = DictItem([name |-> StrV("flightNumber"), value |-> StrV("")])
    /\ params.keys = <<StrV("flightNumber")>>
    /\ params.val[StrV("flightNumber")] = StrV("")

\* C9: a failure of extraction or routing that is neither a missing
\* top-level field nor a validation / unsupported-function failure ends in
\* an envelope whose body is exactly "An unexpected error occurred. Please
\* contact IT support.", with no part of the failure message in it; the
\* message is in the ERROR log record only.
UnexpectedFailureIsGeneric ==
    (/\ pc = "done"
     /\ exc # NoExc
     /\ AllFieldsPresent
     /\ exc.type # "ValueError")
    =>
        /\ Body(response) = <<"An unexpected error occurred. Please contact IT support.">>
        /\ \A i \in 1..Len(exc.arg) : ~Contains(Body(response), exc.arg[i])
        /\ log[Len(log)].level = "ERROR"
        /\ \A i \in 1..Len(exc.arg) : Contains(log[Len(log)].msg, exc.arg[i])

UnexpectedFailureIsGenericWitness ==
    /\ pc = "done"
    /\ AllFieldsPresent
    /\ function_name = StrV("find_baggage")
    /\ exc = [type |-> "TypeError", arg |-> <<"unhashable type: 'list'">>]
    /\ Flatten(Body(response)) = "An unexpected error occurred. Please contact IT support."

\* C10: the top-level field checks come first: when actionGroup, function
\* or agent is absent the invocation goes from the field reads straight to
\* the missing-field response naming the first absent field in the order
\* actionGroup, function, agent, whatever the function name and parameters
\* are; no extraction, validation or handler runs and the only log record
\* is the handler's own error record.
FieldOrder == <<"actionGroup", "function", "agent">>
FirstAbsentField ==
    FieldOrder[CHOOSE i \in 1..3 :
                  /\ FieldOrder[i] \notin DOMAIN event
                  /\ \A j \in 1..(i - 1) : FieldOrder[j] \in DOMAIN event]

FieldChecksComeFirst ==
    ~AllFieldsPresent =>
        /\ pc \in {"start", "except", "done"}
        /\ params = Unbound
        /\ result_body = Unbound
        /\ pc # "start" => exc = [type |-> "KeyError", arg |-> <<FirstAbsentField>>]
        /\ pc # "done" => log = <<>>
        /\ pc = "done" =>
              /\ StartsWith(Body(response), <<"Missing required field: ">>)
              /\ \A f \in {"actionGroup", "function", "agent"} :
                    Contains(Body(response), f) <=> f = FirstAbsentField
              /\ Len(log) = 1
              /\ log[1].level = "ERROR" /\ log[1].func = "lambda_handler"

FieldChecksComeFirstWitness ==
    /\ pc = "done"
    /\ DOMAIN event = {"actionGroup", "function", "parameters"}
    /\ event["function"] = StrV("reboot")
    /\ event["parameters"].k = "list"
    /\ Len(event["parameters"].items) = 2
    /\ Contains(Body(response), "agent")

====
